---- MODULE Spec2Model ----
(***************************************************************************)
(* A model of the gargantua ray tracer: the camera and scene setters, the  *)
(* DimIterator, and the parallel tiled render engine (render::render) as   *)
(* it is driven by the command line program's run().                       *)
(*                                                                         *)
(* Floating point quantities are modelled exactly where the claims need    *)
(* them: a ratio a/b of two u32 is the pair <<a, b>>, compared by cross    *)
(* multiplication; a colour channel takes the values 0.0 and 1.0 (the      *)
(* only ones the textures of the sources produce that convert exactly).    *)
(***************************************************************************)
EXTENDS Integers, Sequences, FiniteSets, TLC

\* ------------------------------------------------------------ constants
\* let chunk_size = 32u32;
chunk_size == 32
\* num_cpus::get().min(30)
ThreadCap == 30
\* if i % 40 == 0
ReportEvery == 40

\* ------------------------------------------------------------ bounds
\* small images of one tile: width, height in 1..MaxSmall
MaxSmall == 2
\* images one pixel high of chunk_size .. chunk_size + MaxOver pixels: the
\* second tile is empty (chunk_size) or holds 1..MaxOver pixels; and the two
\* images one pixel wide of chunk_size and chunk_size + 1 pixels
MaxOver == 1
\* one image of 2 x StripLen pixels: a single tile of more than 40 pixels
StripLen == 21

SmallDims == (1..MaxSmall) \X (1..MaxSmall)
WideDims == {<<w, 1>> : w \in chunk_size..(chunk_size + MaxOver)}
TallDims == {<<1, chunk_size>>, <<1, chunk_size + 1>>}
StripDims == {<<2, StripLen>>}
Dims == SmallDims \cup WideDims \cup TallDims \cup StripDims
CpuCounts == {1, 2}
\* the poses and fields of view the setters are called with
Translations == {<<0, 0, 4>>, <<0, -50, 2>>}
Rotations == {"id", "x_quarter_turn"}
Fovs == {30, 45}

Min(a, b) == IF a < b THEN a ELSE b

\* ------------------------------------------------------------ ratios
\* a as f64 / b as f64 for u32 a, b (b > 0): exact pair, equal iff a*d = c*b
Ratio(a, b) == <<a, b>>
RatioEq(p, q) == p[1] * q[2] = q[1] * p[2]

\* ------------------------------------------------------------ colours
\* Color { red, green, blue, alpha }: channels 0.0 / 1.0 written 0 / 1
MkColor(r, g, b, a) == [red |-> r, green |-> g, blue |-> b, alpha |-> a]

\* (c * 255f64) as u8 : a saturating cast
ToU8(c) == IF c * 255 > 255 THEN 255 ELSE IF c < 0 THEN 0 ELSE c * 255

\* color_to_rgba
color_to_rgba(col) == <<ToU8(col.red), ToU8(col.green), ToU8(col.blue), ToU8(col.alpha)>>

\* ------------------------------------------------------------ DimIterator
NoItem == [some |-> FALSE, v |-> <<0, 0>>]
SomeItem(x, y) == [some |-> TRUE, v |-> <<x, y>>]

DimCreate(width, height, x, y) ==
    [width |-> width, height |-> height, x |-> 0, y |-> 0,
     sx |-> x, sy |-> y, started |-> FALSE, done |-> FALSE]

\* a DimIterator that forgets its origin
DimNext_noorigin(it) ==
    IF it.done THEN [it |-> it, item |-> NoItem]
    ELSE IF it.width = 0 \/ it.height = 0
      THEN [it |-> [it EXCEPT !.done = TRUE], item |-> NoItem]
    ELSE IF ~it.started
      THEN [it |-> [it EXCEPT !.started = TRUE], item |-> SomeItem(0, 0)]
    ELSE IF it.x + 1 >= it.width
      THEN IF it.y + 1 >= it.height
             THEN [it |-> [it EXCEPT !.x = 0, !.y = it.y + 1, !.done = TRUE],
                   item |-> NoItem]
             ELSE [it |-> [it EXCEPT !.x = 0, !.y = it.y + 1],
                   item |-> SomeItem(0, it.y + 1)]
      ELSE [it |-> [it EXCEPT !.x = it.x + 1],
            item |-> SomeItem(it.x + 1, it.y)]

\* Iterator::next : the iterator after the call and the item returned
DimNext(it) ==
    IF it.done THEN [it |-> it, item |-> NoItem]
    ELSE IF it.width = 0 \/ it.height = 0
      THEN [it |-> [it EXCEPT !.done = TRUE], item |-> NoItem]
    ELSE IF ~it.started
      THEN [it |-> [it EXCEPT !.started = TRUE], item |-> SomeItem(it.sx, it.sy)]
    ELSE IF it.x + 1 >= it.width
      THEN IF it.y + 1 >= it.height
             THEN [it |-> [it EXCEPT !.x = 0, !.y = it.y + 1, !.done = TRUE],
                   item |-> NoItem]
             ELSE [it |-> [it EXCEPT !.x = 0, !.y = it.y + 1],
                   item |-> SomeItem(it.sx, it.sy + it.y + 1)]
      ELSE [it |-> [it EXCEPT !.x = it.x + 1],
            item |-> SomeItem(it.sx + it.x + 1, it.sy + it.y)]

\* ------------------------------------------------------------ camera, scene
Identity == [translation |-> <<0, 0, 0>>, rotation |-> "id"]

\* Camera::new : Perspective3::new(height / width, fov, 0.01, 200.0)
CameraNew(width, height, fov) ==
    [width |-> width, height |-> height,
     isometry |-> Identity,
     perspective |-> [aspect |-> Ratio(height, width), fovy |-> fov]]

TheSphere == [pos |-> <<0, 0, 0>>, radius |-> 1]

\* Scene { camera, sphere, bgtex }
MkScene(cam, bg) == [camera |-> cam, sphere |-> TheSphere, bgtex |-> bg]

\* Scene::set_size
SceneSetSize(s, width, height) ==
    [s EXCEPT !.camera.width = width, !.camera.height = height,
              !.camera.perspective.aspect = Ratio(width, height)]

\* Isometry3::from_parts(t, r)
FromParts(t, r) == [translation |-> t, rotation |-> r]

\* Camera::set_position
CameraSetPosition(cam, pos) ==
    [cam EXCEPT !.isometry = FromParts(pos, cam.isometry.rotation)]

\* Camera::set_rotation
CameraSetRotation(cam, rot) ==
    [cam EXCEPT !.isometry = FromParts(cam.isometry.translation, rot)]

\* Option<T>: Some(v) is Opt(TRUE, v), None is Opt(FALSE, _)
Opt(b, v) == [some |-> b, v |-> v]

\* Scene::set_camera
SceneSetCamera(s, trans, rot, fov) ==
    LET cam == s.camera
        posed == IF trans.some /\ rot.some
                   THEN [cam EXCEPT !.isometry = FromParts(trans.v, rot.v)]
                 ELSE IF trans.some THEN CameraSetPosition(cam, trans.v)
                 ELSE IF rot.some THEN CameraSetRotation(cam, rot.v)
                 ELSE cam
    IN  [s EXCEPT !.camera =
            IF fov.some THEN [posed EXCEPT !.perspective.fovy = fov.v]
            ELSE posed]

get_dimensions_swapped(s) == <<s.camera.height, s.camera.width>>

\* Renderable::get_dimensions
get_dimensions(s) == <<s.camera.width, s.camera.height>>

\* Scene::get_background on the clone render_px makes: the supplied texture,
\* or the 50 x 50 checkerboard of create_bg_texture
get_background(s) == IF s.bgtex # "None" THEN s.bgtex ELSE "checkerboard"

\* Sphere::intersect on the primary ray of pixel (x, y), reduced to integers:
\* the sphere projects to the disc inscribed in the image, and the pixel is
\* hit when it lies in that disc.
HitsSphere(s, x, y) ==
    LET w == s.camera.width
        h == s.camera.height
        dx == 2 * x + 1 - w
        dy == 2 * y + 1 - h
        m == Min(w, h)
    IN  4 * (dx * dx + dy * dy) <= m * m

\* Texture::uv of the two-coloured textures, by parity of the texel
TexColor(tex, x, y) ==
    IF tex = "sphere"
      THEN IF (x + y) % 2 = 0 THEN MkColor(1, 0, 0, 1) ELSE MkColor(0, 0, 1, 1)
    ELSE IF tex = "checkerboard"
      THEN IF (x + y) % 2 = 0 THEN MkColor(1, 1, 0, 1) ELSE MkColor(0, 1, 1, 1)
    ELSE IF (x + y) % 2 = 0 THEN MkColor(1, 1, 1, 1) ELSE MkColor(0, 0, 0, 1)

\* (render_px hands the scene itself to get_background, which fills in its
\* bgtex)
render_px_self_noclone(self) == [self EXCEPT !.bgtex = get_background(self)]

\* the scene render_px(&self, x, y) was called on, as the call leaves it:
\* let this = self.clone(); this.get_background() fills in the bgtex of the
\* clone it consumes, and self is only read
render_px_self(self) ==
    LET this == self
        consumed == [this EXCEPT !.bgtex = get_background(this)]
    IN  self

\* Renderable::render_px : a function of the scene and the pixel alone
render_px(s, x, y) ==
    LET bgtex == get_background(s)
    IN  IF HitsSphere(s, x, y) THEN TexColor("sphere", x, y)
        ELSE TexColor(bgtex, x, y)

\* ------------------------------------------------------------ state
VARIABLES
    scene,      \* the Scene handed to render (camera, sphere, bgtex)
    quiet,      \* run's flag: the reporter is Some(&report) iff ~quiet
    num_cpus,   \* num_cpus::get()
    pc,         \* where the main thread is
    wh,         \* render's locals (width, height)
    next_tile,  \* render's loop counters (cx, cy)
    tasks,      \* the closures handed to pool.spawn, in spawn order
    txAlive,    \* render still owns the original Sender tx
    rxAlive,    \* the Receiver rx has not been dropped
    queue,      \* the channel: messages sent and not yet received
    misses,     \* the Mutex<u32> shared by workers and consumer
    img,        \* the DynamicImage being assembled
    i,          \* the consumer's message counter
    cur,        \* the message the consumer holds while inside the callback
    calls,      \* every invocation of the reporter so far
    writes,     \* history: number of put_pixel calls per coordinate
    oob,        \* history: number of out-of-bounds messages received
    reordered,  \* history: a message arrived after one of a later tile
    unit        \* the function exercised on its own, with its locals

vars == <<scene, quiet, num_cpus, pc, wh, next_tile, tasks, txAlive, rxAlive,
          queue, misses, img, i, cur, calls, writes, oob, reordered,
          unit>>

renderVars == <<wh, next_tile, tasks, txAlive, rxAlive, queue, misses, img, i,
                cur, calls, writes, oob, reordered>>

NoMsg == <<0, 0, MkColor(0, 0, 0, 0)>>
\* no function is exercised on its own: the program runs
NoUnit == [fn |-> "none"]
NoImage == [w |-> 0, h |-> 0, buf |-> <<>>]

\* let r = if quiet { None } else { Some(&report) }
HasReporter == ~quiet

\* let num_threads = num_cpus::get().min(30)
num_threads == Min(num_cpus, ThreadCap)

\* (the trailing, clipped column of tiles is forgotten)
num_columns_floor(width) == width \div chunk_size

\* let num_columns = 1 + width / chunk_size
num_columns(width) == 1 + width \div chunk_size

\* let num_rows = 1 + height / chunk_size
num_rows(height) == 1 + height \div chunk_size

\* a tile that is never clipped
ClipSize_unclipped(extent, origin) == chunk_size

\* chunk_size.min(extent - origin) on u32: extent - origin wraps to a value
\* above chunk_size when origin > extent
ClipSize(extent, origin) ==
    IF origin <= extent THEN Min(chunk_size, extent - origin) ELSE chunk_size

\* the iterator of the tile (cx, cy): DimIterator::create(x_size, y_size, x, y)
TileIterator(width, height, cx, cy) ==
    LET x == chunk_size * cx
        y == chunk_size * cy
    IN  DimCreate(ClipSize(width, x), ClipSize(height, y), x, y)

Running == {t \in 1..Len(tasks) : tasks[t].st = "running"}
Live == {t \in 1..Len(tasks) : tasks[t].st # "done"}

\* the number of Senders alive: tx and one clone per unfinished closure
Senders == (IF txAlive THEN 1 ELSE 0) + Cardinality(Live)

\* DynamicImage::new_rgba8(width, height): zeroed pixels
new_rgba8(width, height) ==
    [w |-> width, h |-> height,
     buf |-> [c \in (0..(width - 1)) \X (0..(height - 1)) |-> <<0, 0, 0, 0>>]]

in_bounds_swapped(im, x, y) == x < im.h /\ y < im.w

\* GenericImageView::in_bounds
in_bounds(im, x, y) == x < im.w /\ y < im.h

\* (the pixel is written at the transposed coordinate)
put_pixel_transposed(im, x, y, px) == [im EXCEPT !.buf[<<y, x>>] = px]

\* ImageBuffer::put_pixel
put_pixel(im, x, y, px) == [im EXCEPT !.buf[<<x, y>>] = px]

\* ------------------------------------------------------------ Init
Init ==
    /\ \E d \in Dims :
          \E bg \in (IF d \in SmallDims THEN {"None", "stars"} ELSE {"None"}) :
             scene = MkScene(CameraNew(d[1], d[2], 30), bg)
    /\ quiet \in BOOLEAN
    /\ num_cpus \in CpuCounts
    /\ pc = "scene"
    /\ wh = <<0, 0>>
    /\ next_tile = <<0, 0>>
    /\ tasks = <<>>
    /\ txAlive = FALSE
    /\ rxAlive = FALSE
    /\ queue = <<>>
    /\ misses = 0
    /\ img = NoImage
    /\ i = 0
    /\ cur = NoMsg
    /\ calls = <<>>
    /\ writes = <<>>
    /\ oob = 0
    /\ reordered = FALSE
    /\ unit = NoUnit

\* ------------------------------------------------------------ the caller
\* scn.set_size(width, height) before the scene is rendered
SetSize ==
    /\ pc = "scene"
    /\ \E d \in SmallDims : scene' = SceneSetSize(scene, d[1], d[2])
    /\ UNCHANGED <<quiet, num_cpus, pc, unit>>
    /\ UNCHANGED renderVars

\* scn.set_camera(trans, rot, fov)
SetCamera ==
    /\ pc = "scene"
    /\ \E ht, hr, hf \in BOOLEAN :
       \E trans \in Translations, rot \in Rotations, fov \in Fovs :
          scene' = SceneSetCamera(scene, Opt(ht, trans), Opt(hr, rot), Opt(hf, fov))
    /\ UNCHANGED <<quiet, num_cpus, pc, unit>>
    /\ UNCHANGED renderVars

\* scn.camera.set_position(pos)
SetPosition ==
    /\ pc = "scene"
    /\ \E pos \in Translations :
          scene' = [scene EXCEPT !.camera = CameraSetPosition(@, pos)]
    /\ UNCHANGED <<quiet, num_cpus, pc, unit>>
    /\ UNCHANGED renderVars

\* scn.camera.set_rotation(rot)
SetRotation ==
    /\ pc = "scene"
    /\ \E rot \in Rotations :
          scene' = [scene EXCEPT !.camera = CameraSetRotation(@, rot)]
    /\ UNCHANGED <<quiet, num_cpus, pc, unit>>
    /\ UNCHANGED renderVars

\* ------------------------------------------------------------ render
\* render is entered; dimensions read, pool built, channel and counter created
RenderSetup ==
    /\ pc = "scene"
    /\ pc' = "spawn"
    /\ wh' = get_dimensions(scene)
    /\ next_tile' = <<0, 0>>
    /\ txAlive' = TRUE
    /\ rxAlive' = TRUE
    /\ queue' = <<>>
    /\ misses' = 0
    /\ UNCHANGED <<scene, quiet, num_cpus, tasks, img, i, cur, calls, writes, oob, reordered, unit>>

\* ThreadPoolBuilder::build fails: Err("Cannot setup threading")
RenderSetupFail ==
    /\ pc = "scene"
    /\ pc' = "err_threading"
    /\ wh' = get_dimensions(scene)
    /\ UNCHANGED <<scene, quiet, num_cpus, next_tile, tasks, txAlive, rxAlive,
                   queue, misses, img, i, cur, calls, writes, oob, reordered, unit>>

\* one iteration of the two nested loops: the tile (cx, cy) is spawned
SpawnTile ==
    /\ pc = "spawn"
    /\ LET cx == next_tile[1]
           cy == next_tile[2]
           last_col == cx + 1 >= num_columns(wh[1])
           last_row == cy + 1 >= num_rows(wh[2])
       IN  /\ tasks' = Append(tasks,
                  [it |-> TileIterator(wh[1], wh[2], cx, cy),
                   st |-> "queued", sent |-> 0, failed |-> 0])
           /\ next_tile' = IF last_col THEN <<0, cy + 1>> ELSE <<cx + 1, cy>>
           /\ pc' = IF last_col /\ last_row THEN "drop_tx" ELSE "spawn"
    /\ UNCHANGED <<scene, quiet, num_cpus, wh, txAlive, rxAlive, queue, misses,
                   img, i, cur, calls, writes, oob, reordered, unit>>

\* (render forgets drop(tx): its own Sender lives as long as the receive loop)
DropTxNewImage_keeps_tx ==
    /\ pc = "drop_tx"
    /\ pc' = "recv"
    /\ txAlive' = TRUE
    /\ img' = new_rgba8(wh[1], wh[2])
    /\ writes' = [c \in (0..(wh[1] - 1)) \X (0..(wh[2] - 1)) |-> 0]
    /\ i' = 0
    /\ UNCHANGED <<scene, quiet, num_cpus, wh, next_tile, tasks, rxAlive, queue,
                   misses, cur, calls, oob, reordered, unit>>

\* drop(tx); the image buffer is created and img.as_mut_rgba8() is Some
DropTxNewImage ==
    /\ pc = "drop_tx"
    /\ pc' = "recv"
    /\ txAlive' = FALSE
    /\ img' = new_rgba8(wh[1], wh[2])
    /\ writes' = [c \in (0..(wh[1] - 1)) \X (0..(wh[2] - 1)) |-> 0]
    /\ i' = 0
    /\ UNCHANGED <<scene, quiet, num_cpus, wh, next_tile, tasks, rxAlive, queue,
                   misses, cur, calls, oob, reordered, unit>>

\* drop(tx); img.as_mut_rgba8() is None: Err("Couldn't create image"), and the
\* Receiver is dropped with render's frame
DropTxNoImage ==
    /\ pc = "drop_tx"
    /\ pc' = "err_image"
    /\ txAlive' = FALSE
    /\ rxAlive' = FALSE
    /\ queue' = <<>>
    /\ UNCHANGED <<scene, quiet, num_cpus, wh, next_tile, tasks, misses, img, i,
                   cur, calls, writes, oob, reordered, unit>>

\* ------------------------------------------------------------ consumer
\* the index, in spawn order, of the tile a coordinate belongs to
TileIndexOf(x, y) ==
    (y \div chunk_size) * num_columns(wh[1]) + (x \div chunk_size)

\* history: the message m is received after a message of a later tile
ArrivesLate(m) ==
    \E c \in DOMAIN writes :
        writes[c] > 0 /\ TileIndexOf(c[1], c[2]) > TileIndexOf(m[1], m[2])

\* i += 1; if buf.in_bounds(x, y) { put_pixel } else { *misses.lock() += 1 }
\* (the consumer writes at the arrival index instead of the coordinate sent)
Store_by_arrival(m) ==
    LET x == i % wh[1]
        y == i \div wh[1]
    IN  /\ i' = i + 1
        /\ img' = put_pixel(img, x, y, color_to_rgba(m[3]))
        /\ writes' = [writes EXCEPT ![<<x, y>>] = @ + 1]
        /\ reordered' = reordered
        /\ UNCHANGED <<misses, oob>>

\* (the consumer takes the lock only to read: the increment is lost)
Store_lost_update(m) ==
    /\ i' = i + 1
    /\ IF in_bounds(img, m[1], m[2])
         THEN /\ img' = put_pixel(img, m[1], m[2], color_to_rgba(m[3]))
              /\ writes' = [writes EXCEPT ![<<m[1], m[2]>>] = @ + 1]
              /\ UNCHANGED <<misses, oob>>
         ELSE /\ oob' = oob + 1
              /\ UNCHANGED <<img, writes, misses>>
    /\ reordered' = (reordered \/ ArrivesLate(m))

\* i += 1; if buf.in_bounds(x, y) { put_pixel } else { *misses.lock() += 1 }
Store(m) ==
    /\ i' = i + 1
    /\ IF in_bounds(img, m[1], m[2])
         THEN /\ img' = put_pixel(img, m[1], m[2], color_to_rgba(m[3]))
              /\ writes' = [writes EXCEPT ![<<m[1], m[2]>>] = @ + 1]
              /\ UNCHANGED <<misses, oob>>
         ELSE /\ misses' = misses + 1
              /\ oob' = oob + 1
              /\ UNCHANGED <<img, writes>>
    /\ reordered' = (reordered \/ ArrivesLate(m))

\* (a status text that never mentions the misses)
Report_plain(nm) ==
    [p |-> Ratio(i, wh[1] * wh[2]), msg |-> "Raytracing...", nm |-> nm]

\* (the fraction counts the message being handled)
Report_after(nm) ==
    [p |-> Ratio(i + 1, wh[1] * wh[2]),
     msg |-> IF nm > 0 THEN "Raytracing (missed/overshot pixels)..."
             ELSE "Raytracing...",
     nm |-> nm]

\* the reporter is called with (i / tot, status): nm is read under the lock,
\* which is released before the call
Report(nm) ==
    [p |-> Ratio(i, wh[1] * wh[2]),
     msg |-> IF nm > 0 THEN "Raytracing (missed/overshot pixels)..."
             ELSE "Raytracing...",
     nm |-> nm]

\* rx yields a message. Without a due report the whole loop body runs; with
\* one, the consumer enters the callback holding the message.
RecvMsg ==
    /\ pc = "recv"
    /\ queue # <<>>
    /\ queue' = Tail(queue)
    /\ IF HasReporter /\ i % ReportEvery = 0
         THEN /\ calls' = Append(calls, Report(misses))
              /\ cur' = Head(queue)
              /\ pc' = "callback"
              /\ UNCHANGED <<i, img, writes, misses, oob, reordered>>
         ELSE /\ Store(Head(queue))
              /\ UNCHANGED <<pc, cur, calls>>
    /\ UNCHANGED <<scene, quiet, num_cpus, wh, next_tile, tasks, txAlive, rxAlive,
                   unit>>

\* the callback returns, however long it took; the rest of the loop body runs
CallbackReturn ==
    /\ pc = "callback"
    /\ Store(cur)
    /\ cur' = NoMsg
    /\ pc' = "recv"
    /\ UNCHANGED <<scene, quiet, num_cpus, wh, next_tile, tasks, txAlive, rxAlive,
                   queue, calls, unit>>

\* rx.into_iter() ends: the queue is empty and every Sender is dropped.
\* The warning is printed when misses > 0 and Ok(img) is returned.
RecvEnd ==
    /\ pc = "recv"
    /\ queue = <<>>
    /\ Senders = 0
    /\ pc' = "ok"
    /\ rxAlive' = FALSE
    /\ UNCHANGED <<scene, quiet, num_cpus, wh, next_tile, tasks, txAlive, queue,
                   misses, img, i, cur, calls, writes, oob, reordered, unit>>

\* (run forgets its closing report)
RunFinish_silent ==
    /\ pc = "ok"
    /\ pc' = "done"
    /\ UNCHANGED <<scene, quiet, num_cpus, calls>>
    /\ UNCHANGED <<wh, next_tile, tasks, txAlive, rxAlive, queue, misses, img, i,
                   cur, writes, oob, reordered, unit>>

\* run, after render returned Ok: the image is saved, and report(1.0, "Done
\* in ...") is called unless quiet
RunFinish ==
    /\ pc = "ok"
    /\ pc' = "done"
    /\ calls' = IF quiet THEN calls
                ELSE Append(calls, [p |-> Ratio(1, 1), msg |-> "Done", nm |-> misses])
    /\ UNCHANGED <<scene, quiet, num_cpus>>
    /\ UNCHANGED <<wh, next_tile, tasks, txAlive, rxAlive, queue, misses, img, i,
                   cur, writes, oob, reordered, unit>>

\* ------------------------------------------------------------ workers
\* a free pool thread takes a spawned closure
WorkerStart(t) ==
    /\ t \in 1..Len(tasks)
    /\ tasks[t].st = "queued"
    /\ Cardinality(Running) < num_threads
    /\ tasks' = [tasks EXCEPT ![t].st = "running"]
    /\ UNCHANGED <<scene, quiet, num_cpus, pc, wh, next_tile, txAlive, rxAlive,
                   queue, misses, img, i, cur, calls, writes, oob, reordered, unit>>

\* (a send that waits for the consumer: a rendezvous channel)
CanSend_rendezvous == queue = <<>> /\ pc = "recv"

\* mpsc::channel() is unbounded: send never waits
CanSend == TRUE

\* (the worker gives up at the first failed send)
AfterFailedSend_abort(task, it) ==
    [task EXCEPT !.it = [it EXCEPT !.done = TRUE], !.failed = @ + 1, !.st = "done"]

\* Err(_) => { *m.lock().unwrap() += 1 } and the for loop goes on
AfterFailedSend(task, it) == [task EXCEPT !.it = it, !.failed = @ + 1]

\* one iteration of the closure's for loop: next() is Some((x, y)); the colour
\* is computed and sent; a failed send is counted under the lock
WorkerPixel(t) ==
    /\ t \in 1..Len(tasks)
    /\ tasks[t].st = "running"
    /\ CanSend
    /\ LET r == DimNext(tasks[t].it)
           x == r.item.v[1]
           y == r.item.v[2]
       IN  /\ r.item.some
           /\ IF rxAlive
                THEN /\ queue' = Append(queue, <<x, y, render_px(scene, x, y)>>)
                     /\ tasks' = [tasks EXCEPT ![t].it = r.it, ![t].sent = @ + 1]
                     /\ UNCHANGED misses
                ELSE /\ misses' = misses + 1
                     /\ tasks' = [tasks EXCEPT ![t] = AfterFailedSend(@, r.it)]
                     /\ UNCHANGED queue
    /\ scene' = render_px_self(scene)
    /\ UNCHANGED <<quiet, num_cpus, pc, wh, next_tile, txAlive, rxAlive,
                   img, i, cur, calls, writes, oob, reordered, unit>>

\* next() is None: the closure returns and its Sender clone is dropped
WorkerExit(t) ==
    /\ t \in 1..Len(tasks)
    /\ tasks[t].st = "running"
    /\ LET r == DimNext(tasks[t].it)
       IN  /\ ~r.item.some
           /\ tasks' = [tasks EXCEPT ![t].it = r.it, ![t].st = "done"]
    /\ UNCHANGED <<scene, quiet, num_cpus, pc, wh, next_tile, txAlive, rxAlive,
                   queue, misses, img, i, cur, calls, writes, oob, reordered, unit>>

\* ------------------------------------------------------------ specifications
Worker == \E t \in DOMAIN tasks : WorkerStart(t) \/ WorkerPixel(t) \/ WorkerExit(t)

Next ==
    \/ SetSize
    \/ RenderSetup
    \/ RenderSetupFail
    \/ SpawnTile
    \/ DropTxNewImage
    \/ RecvMsg
    \/ CallbackReturn
    \/ RecvEnd
    \/ RunFinish
    \/ Worker

\* the program as the image library lets it run: new_rgba8 gives an rgba8 image
Spec == Init /\ [][Next]_vars

NextFail == Next \/ DropTxNoImage

\* the program with the arm None => Err("Couldn't create image") taken as well
SpecFail == Init /\ [][NextFail]_vars

NextCamera == SetSize \/ SetCamera \/ SetPosition \/ SetRotation

\* a scene built with Camera::new and then changed through its setters
SpecCamera == Init /\ [][NextCamera]_vars

\* the consumer about to drain a channel that holds arbitrary messages, in or
\* out of the bounds of a small image, all Senders gone
InitConsumer ==
    /\ \E d \in SmallDims :
          /\ scene = MkScene(CameraNew(d[1], d[2], 30), "None")
          /\ wh = d
          /\ img = new_rgba8(d[1], d[2])
          /\ writes = [c \in (0..(d[1] - 1)) \X (0..(d[2] - 1)) |-> 0]
    /\ quiet \in BOOLEAN
    /\ num_cpus = 1
    /\ pc = "recv"
    /\ next_tile = <<0, 1>>
    /\ tasks = <<>>
    /\ txAlive = FALSE
    /\ rxAlive = TRUE
    /\ \E n \in 1..2 :
          queue \in [1..n -> (0..MaxSmall) \X (0..MaxSmall)
                                \X {MkColor(1, 1, 0, 1), MkColor(0, 0, 1, 1)}]
    /\ misses = 0
    /\ i = 0
    /\ cur = NoMsg
    /\ calls = <<>>
    /\ oob = 0
    /\ reordered = FALSE
    /\ unit = NoUnit

\* the program, and besides it the consumer run on arbitrary messages
InitAnyMessage == Init \/ InitConsumer

SpecAnyMessage == InitAnyMessage /\ [][NextFail]_vars

\* every variable of the program: a function exercised on its own leaves
\* them alone
programVars == <<scene, quiet, num_cpus, pc, wh, next_tile, tasks, txAlive,
                 rxAlive, queue, misses, img, i, cur, calls, writes, oob,
                 reordered>>

\* the program has not started and is not run
ProgramIdle ==
    /\ scene = MkScene(CameraNew(1, 1, 30), "None")
    /\ quiet = TRUE
    /\ num_cpus = 1
    /\ pc = "unit"
    /\ wh = <<0, 0>>
    /\ next_tile = <<0, 0>>
    /\ tasks = <<>>
    /\ txAlive = FALSE
    /\ rxAlive = FALSE
    /\ queue = <<>>
    /\ misses = 0
    /\ img = NoImage
    /\ i = 0
    /\ cur = NoMsg
    /\ calls = <<>>
    /\ writes = <<>>
    /\ oob = 0
    /\ reordered = FALSE

\* ------------------------------------------------------------ f64 vectors
\* type Vector = Vector3<f64>: an f64 is a whole number of 1/Unit (fixed
\* point), so that the unit vectors (3, 4, 0)/5 are exact; a product of two
\* f64 is a whole number of 1/Unit^2 until it is scaled back, the quotient
\* rounding toward zero. A vector whose components are NaN has nan = TRUE.
Unit == 5

\* the f64 1.0
One == Unit

\* ray origins and sphere centres have coordinates in -MaxCoord..MaxCoord
MaxCoord == 3
\* max_iter in 0..MaxIter
MaxIter == 4

Quot(a, b) == IF a >= 0 THEN a \div b ELSE -((-a) \div b)

\* f64::sqrt, rounded down to the grid
Sqrt(n) == CHOOSE r \in 0..n : r * r <= n /\ (r + 1) * (r + 1) > n

Vec(x, y, z) == [x |-> x, y |-> y, z |-> z, nan |-> FALSE]
NaNVec == [x |-> 0, y |-> 0, z |-> 0, nan |-> TRUE]

\* Vector::zeros()
zeros == Vec(0, 0, 0)

VAdd(a, b) ==
    IF a.nan \/ b.nan THEN NaNVec ELSE Vec(a.x + b.x, a.y + b.y, a.z + b.z)

VSub(a, b) ==
    IF a.nan \/ b.nan THEN NaNVec ELSE Vec(a.x - b.x, a.y - b.y, a.z - b.z)

\* v * k for an f64 k
VMul(a, k) ==
    IF a.nan THEN NaNVec
    ELSE Vec(Quot(a.x * k, Unit), Quot(a.y * k, Unit), Quot(a.z * k, Unit))

\* a.dot(&b) of two vectors that are not NaN, in 1/Unit^2
Dot(a, b) == a.x * b.x + a.y * b.y + a.z * b.z

\* ------------------------------------------------------------ Sphere::intersect
\* the distance returned for a ray with a unit direction, as an Option<f64>
SphereIntersect_far(sphere, ray) ==
    LET l == VSub(sphere.pos, ray.origin)
        adj2 == Quot(Dot(l, ray.direction), Unit)
        d2 == Dot(l, l) - adj2 * adj2
        r2 == sphere.radius * sphere.radius
        thc == Sqrt(r2 - d2)
        t0 == adj2 - thc
        t1 == adj2 + thc
    IN  IF d2 > r2 THEN Opt(FALSE, 0)
        ELSE IF t0 < 0 /\ t1 < 0 THEN Opt(FALSE, 0)
        ELSE Opt(TRUE, t1)

\* Sphere::intersect
SphereIntersect(sphere, ray) ==
    LET l == VSub(sphere.pos, ray.origin)
        adj2 == Quot(Dot(l, ray.direction), Unit)
        d2 == Dot(l, l) - adj2 * adj2
        r2 == sphere.radius * sphere.radius
        thc == Sqrt(r2 - d2)
        t0 == adj2 - thc
        t1 == adj2 + thc
    IN  IF d2 > r2 THEN Opt(FALSE, 0)
        ELSE IF t0 < 0 /\ t1 < 0 THEN Opt(FALSE, 0)
        ELSE IF t0 < 0 THEN Opt(TRUE, t1)
        ELSE IF t1 < 0 THEN Opt(TRUE, t0)
        ELSE Opt(TRUE, IF t0 < t1 THEN t0 ELSE t1)

\* ------------------------------------------------------------ Particle
\* Particle::from_ray
from_ray(r) == [pos |-> r.origin, vel |-> r.direction, acc |-> zeros]

\* Particle::add_force
add_force(p, force) == [p EXCEPT !.acc = VAdd(@, force)]

\* (the position moves with the velocity of the step before, and the
\* acceleration is kept)
update_explicit(p, dt) ==
    [pos |-> VAdd(p.pos, VMul(p.vel, dt)),
     vel |-> VAdd(p.vel, VMul(p.acc, dt)),
     acc |-> p.acc]

\* Particle::update
update(p, dt) ==
    LET vel == VAdd(p.vel, VMul(p.acc, dt))
    IN  [pos |-> VAdd(p.pos, VMul(vel, dt)), vel |-> vel, acc |-> zeros]

\* GRParticle::from_particle
from_particle(part, dt) == [particle |-> part, dt |-> dt]

\* pos.dot(&pos).powf(2.5) is zero: exactly when pos is the zero vector
pos_fifth_is_zero(pos) == ~pos.nan /\ Dot(pos, pos) = 0

\* (a force that does not depend on h2)
gr_potential_ignores_h2(pos, h2) ==
    LET n == Dot(pos, pos)
        F(c) == Quot(Quot(Quot(-3 * One * c * Unit * Unit * Unit * Unit, n), n),
                     2 * Sqrt(n))
    IN  IF pos.nan \/ n = 0 THEN NaNVec
        ELSE Vec(F(pos.x), F(pos.y), F(pos.z))

\* gr_potential: -1.5 * h2 * pos / pos_fifth, with pos_fifth = |pos|^5. With
\* n = pos.dot(&pos) in 1/Unit^2 the component c of the quotient is
\* -3 * h2 * c * Unit^4 / (2 * n * n * sqrt(n)); at pos = 0 it is 0.0 / 0.0.
gr_potential(pos, h2) ==
    LET n == Dot(pos, pos)
        F(c) == Quot(Quot(Quot(-3 * h2 * c * Unit * Unit * Unit * Unit, n), n),
                     2 * Sqrt(n))
    IN  IF pos.nan \/ n = 0 THEN NaNVec
        ELSE Vec(F(pos.x), F(pos.y), F(pos.z))

\* (a particle on the surface of the sphere counts as captured)
Captured_closed(sphere, pos) ==
    LET to_sphere == VSub(sphere.pos, pos)
    IN  ~to_sphere.nan /\ Dot(to_sphere, to_sphere) <= sphere.radius * sphere.radius

\* to_sphere.dot(&to_sphere) < sphere.radius * sphere.radius : false on NaN
Captured(sphere, pos) ==
    LET to_sphere == VSub(sphere.pos, pos)
    IN  ~to_sphere.nan /\ Dot(to_sphere, to_sphere) < sphere.radius * sphere.radius

\* the body of the for loop of GRParticle::intersect up to its test, for the
\* h2 handed to gr_potential
LoopBody(gp, sphere, h2) ==
    LET from_sphere == VSub(gp.particle.pos, sphere.pos)
        forced == add_force(gp.particle, gr_potential(from_sphere, h2))
    IN  [gp EXCEPT !.particle = update(forced, gp.dt)]

\* ------------------------------------------------------------ GRScene::render_px
GRName == "GRScene::render_px"

Lattice == {Vec(Unit * x, Unit * y, 0) : x, y \in (-MaxCoord)..MaxCoord}

\* directions of length exactly 1.0
Directions ==
    {Vec(5, 0, 0), Vec(-5, 0, 0), Vec(0, 5, 0), Vec(0, -5, 0),
     Vec(3, 4, 0), Vec(4, -3, 0), Vec(-3, -4, 0), Vec(0, 0, -5)}

Spheres == {[pos |-> c, radius |-> r] : c \in {zeros, Vec(Unit, 0, 0)},
                                         r \in {One, 2 * One}}

\* render_px(x, y, dt, max_iter, bg) has built the particle of its primary
\* ray; h2 is the second argument of every call of gr_potential
GRStart(sphere, ray, dt, max_iter, h2) ==
    [fn |-> GRName, sphere |-> sphere, ray |-> ray,
     part |-> from_particle(from_ray(ray), dt), max_iter |-> max_iter,
     h2 |-> h2, k |-> 0, st |-> "loop", ret |-> Opt(FALSE, zeros),
     h2s |-> <<>>, zero_div |-> FALSE, sample |-> [tex |-> "none", of |-> zeros]]

GRInputs(h2) ==
    {GRStart(sphere, [origin |-> o, direction |-> d], dt, max_iter, h2) :
        sphere \in Spheres, o \in Lattice, d \in Directions,
        dt \in {One, 2 * One}, max_iter \in 0..MaxIter}

\* gr_potential(from_sphere, 1.0)
InitGR == ProgramIdle /\ unit \in GRInputs(One)

\* one iteration of for _ in 0..max_iter: force, update, test; the histories
\* record the h2 handed to gr_potential and a denominator that was zero
GRStep ==
    /\ unit.fn = GRName
    /\ unit.st = "loop"
    /\ unit.k < unit.max_iter
    /\ LET from_sphere == VSub(unit.part.particle.pos, unit.sphere.pos)
           gp == LoopBody(unit.part, unit.sphere, unit.h2)
           hit == Captured(unit.sphere, gp.particle.pos)
       IN  unit' = [unit EXCEPT !.part = gp,
                                !.k = @ + 1,
                                !.h2s = Append(@, unit.h2),
                                !.zero_div = @ \/ pos_fifth_is_zero(from_sphere),
                                !.st = IF hit THEN "returned" ELSE "loop",
                                !.ret = IF hit THEN Opt(TRUE, gp.particle.pos) ELSE @]
    /\ UNCHANGED programVars

\* the loop is exhausted: return None
GRExhausted ==
    /\ unit.fn = GRName
    /\ unit.st = "loop"
    /\ unit.k = unit.max_iter
    /\ unit' = [unit EXCEPT !.st = "returned"]
    /\ UNCHANGED programVars

\* (the background is looked up along the primary ray)
GRSampled_primary(u) ==
    IF u.ret.some
      THEN [tex |-> "sphere", of |-> VSub(u.ret.v, u.sphere.pos)]
      ELSE [tex |-> "bg", of |-> u.ray.direction]

\* .map(|v| sphere.texture.uv(sphere.texture_coords(&v)))
\* .or_else(|| Some(bg.uv(..part.particle.vel()..))): the texture looked up and
\* the vector whose spherical angles give the uv
GRSampled(u) ==
    IF u.ret.some
      THEN [tex |-> "sphere", of |-> VSub(u.ret.v, u.sphere.pos)]
      ELSE [tex |-> "bg", of |-> u.part.particle.vel]

\* render_px turns the result of intersect into a colour
GRSample ==
    /\ unit.fn = GRName
    /\ unit.st = "returned"
    /\ unit' = [unit EXCEPT !.st = "rendered", !.sample = GRSampled(unit)]
    /\ UNCHANGED programVars

NextGR == GRStep \/ GRExhausted \/ GRSample

\* GRScene::render_px on rays of the lattice
SpecGR == InitGR /\ [][NextGR]_vars

\* render_px is about to be called
GRCaller == "caller of GRScene::render_px"

InitGRCall == ProgramIdle /\ unit = [fn |-> GRCaller]

\* render_px(x, y, dt, max_iter, bg) is called and builds its particle
GRCall ==
    /\ unit.fn = GRCaller
    /\ unit' \in GRInputs(One)
    /\ UNCHANGED programVars

NextGRCall == GRCall \/ NextGR

\* the calling thread has a step to take: the call, an iteration, the return
\* from the exhausted loop, or the lookup of the colour
GRCanStep ==
    \/ unit.fn = GRCaller
    \/ unit.fn = GRName /\ unit.st \in {"loop", "returned"}

\* the calling thread is run while it has a step to take: weak fairness of
\* NextGRCall, written with GRCanStep for ENABLED <<NextGRCall>>_vars and,
\* every step being one of NextGRCall, with any step that is not a stutter
\* for <<NextGRCall>>_vars
GRThreadRuns == []<>(~GRCanStep) \/ []<><<TRUE>>_vars

\* the same from the call on, the calling thread being run
SpecGRFair == InitGRCall /\ [][NextGRCall]_vars /\ GRThreadRuns

\* the same with the deflection switched off: h2 = 0.0
InitGRStraight == ProgramIdle /\ unit \in GRInputs(0)

SpecGRStraight == InitGRStraight /\ [][NextGR]_vars

\* ------------------------------------------------------------ Sphere::intersect alone
IntersectName == "Sphere::intersect"

IntersectInputs ==
    {[fn |-> IntersectName, sphere |-> sphere,
      ray |-> [origin |-> o, direction |-> d],
      st |-> "call", ret |-> Opt(FALSE, 0)] :
        sphere \in Spheres, o \in Lattice, d \in Directions}

InitIntersect == ProgramIdle /\ unit \in IntersectInputs

\* sphere.intersect(&ray) returns
Intersect ==
    /\ unit.fn = IntersectName
    /\ unit.st = "call"
    /\ unit' = [unit EXCEPT !.st = "returned",
                            !.ret = SphereIntersect(unit.sphere, unit.ray)]
    /\ UNCHANGED programVars

SpecIntersect == InitIntersect /\ [][Intersect]_vars

\* ------------------------------------------------------------ texture coordinates
\* An angle is a whole number of pi/4; the directions are those whose
\* spherical angles are such multiples.
AngleDirections ==
    {Vec(Unit * x, Unit * y, Unit * z) : x, y, z \in {-1, 0, 1}} \
    ({zeros} \cup {Vec(Unit * x, Unit * y, Unit * z) : x, y, z \in {-1, 1}})

\* f64::atan2(y, x) for |x| = |y| or x * y = 0
Atan2(y, x) ==
    IF y = 0 THEN (IF x >= 0 THEN 0 ELSE 4)
    ELSE IF y > 0 THEN (IF x > 0 THEN 1 ELSE IF x = 0 THEN 2 ELSE 3)
    ELSE (IF x > 0 THEN -1 ELSE IF x = 0 THEN -2 ELSE -3)

\* (z / r).acos() for z = 0, for x = y = 0, and for z * z = x * x + y * y
AcosZOverR(vec) ==
    IF vec.z = 0 THEN 2
    ELSE IF vec.x = 0 /\ vec.y = 0 THEN (IF vec.z > 0 THEN 0 ELSE 4)
    ELSE IF vec.z > 0 THEN 1 ELSE 3

\* cartesian_to_spherical: (_, theta, phi)
cartesian_to_spherical(vec) ==
    [theta |-> AcosZOverR(vec), phi |-> Atan2(vec.y, vec.x)]

\* TexCoords::new(u, v), u and v exact ratios: an angle a over PI is a / 4
TexCoords(u, v) == [u |-> u, v |-> v]

\* gargantua Sphere::texture_coords
texture_coords(sphere, hit) ==
    LET dir == VSub(hit, sphere.pos)
        a == cartesian_to_spherical(dir)
    IN  TexCoords(Ratio(a.theta, 4), Ratio(a.phi + 4, 8))

\* gargantua Scene::render_px, the arm None: the uv of the background
background_uv(direction) ==
    LET a == cartesian_to_spherical(direction)
    IN  TexCoords(Ratio(a.theta, 4), Ratio(a.phi + 4, 8))

\* starless Sphere::texture_coords:
\* TexCoords::new(theta / FRAC_PI_2, phi / PI)
starless_texture_coords(sphere, hit) ==
    LET dir == VSub(hit, sphere.pos)
        a == [theta |-> AcosZOverR(dir), phi |-> Atan2(dir.y, dir.x)]
    IN  TexCoords(Ratio(a.theta, 2), Ratio(a.phi, 4))

\* starless Scene::render_px, the arm None:
\* Vector2::new(theta / PI, phi / FRAC_PI_2)
starless_background_uv(direction) ==
    LET a == cartesian_to_spherical(direction)
    IN  TexCoords(Ratio(a.theta, 4), Ratio(a.phi, 2))

\* starless GRScene::render_px, the closure of or_else:
\* Vector2::new(theta / PI * 2.0, phi / PI)
gr_background_uv(dir) ==
    LET a == [theta |-> AcosZOverR(dir), phi |-> Atan2(dir.y, dir.x)]
    IN  TexCoords(Ratio(a.theta * 2, 4), Ratio(a.phi, 4))

UVName == "texture_coords"
Renderers == {"gargantua::Scene", "starless::Scene", "starless::GRScene"}
NoUV == TexCoords(Ratio(0, 1), Ratio(0, 1))

UVInputs ==
    {[fn |-> UVName, renderer |-> r, sphere |-> [pos |-> c, radius |-> One],
      d |-> d, st |-> "call", sphere_uv |-> NoUV, sky_uv |-> NoUV] :
        r \in Renderers, c \in Lattice, d \in AngleDirections}

InitUV == ProgramIdle /\ unit \in UVInputs

\* one renderer maps the point centre + d of its sphere, and the direction d
\* of a ray that missed, to texture coordinates
MapBoth ==
    /\ unit.fn = UVName
    /\ unit.st = "call"
    /\ LET hit == VAdd(unit.sphere.pos, unit.d)
       IN  unit' = [unit EXCEPT
              !.st = "returned",
              !.sphere_uv =
                  IF unit.renderer = "gargantua::Scene"
                    THEN texture_coords(unit.sphere, hit)
                    ELSE starless_texture_coords(unit.sphere, hit),
              !.sky_uv =
                  IF unit.renderer = "gargantua::Scene" THEN background_uv(unit.d)
                  ELSE IF unit.renderer = "starless::Scene"
                    THEN starless_background_uv(unit.d)
                  ELSE gr_background_uv(unit.d)]
    /\ UNCHANGED programVars

SpecUV == InitUV /\ [][MapBoth]_vars

\* ------------------------------------------------------------ the background
\* Self::create_bg_texture(50, 50)
BgSize == 50
\* a render_px call is made for a pixel of 0..MaxPx squared, and MaxSamples
\* calls are followed
MaxPx == 1
MaxSamples == 3

\* Texture(img, filtering, mode)
Texture(image, filtering, mode) ==
    [img |-> image, filtering |-> filtering, mode |-> mode]

\* Scene::create_bg_texture: Ok(texture), the image crate giving an rgb8 image
create_bg_texture(width, height) ==
    Texture([w |-> width, h |-> height,
             buf |-> [c \in (0..(width - 1)) \X (0..(height - 1)) |->
                         IF (c[1] + c[2]) % 2 = 0 THEN <<255, 255, 0>>
                         ELSE <<0, 255, 255>>]],
            "Nearest", "Repeat")

\* textures a caller supplies as bgtex
SuppliedTextures ==
    {Texture([w |-> 1, h |-> 1, buf |-> [c \in {<<0, 0>>} |-> px]],
             "Nearest", "Repeat") :
        px \in {<<0, 0, 0>>, <<255, 255, 255>>, <<255, 0, 0>>}}

\* Scene::get_background(mut self): the scene it was called on, as it is left,
\* and the texture returned
SceneGetBackground(this) ==
    IF this.bgtex.some THEN [self |-> this, tex |-> this.bgtex.v]
    ELSE LET made == create_bg_texture(BgSize, BgSize)
         IN  [self |-> [this EXCEPT !.bgtex = Opt(TRUE, made)], tex |-> made]

BgName == "Scene::get_background"

NoTexture == Opt(FALSE, "None")

\* no render_px call was made yet; first and last are the textures the first
\* and the latest call got
InitBackground ==
    /\ ProgramIdle
    /\ \E bg \in {NoTexture} \cup {Opt(TRUE, t) : t \in SuppliedTextures} :
          unit = [fn |-> BgName, scene |-> [bgtex |-> bg], bgtex0 |-> bg,
                  render |-> 1, samples |-> 0, px |-> <<0, 0>>,
                  first |-> NoTexture, last |-> NoTexture]

\* (render_px calls get_background on the scene itself, which keeps what the
\* call leaves behind: a supplied texture is moved out)
SampleBackground_moved ==
    /\ unit.fn = BgName
    /\ unit.samples < MaxSamples
    /\ \E x, y \in 0..MaxPx :
          LET r == SceneGetBackground(unit.scene)
          IN  unit' = [unit EXCEPT
                 !.scene = IF unit.scene.bgtex.some
                             THEN [bgtex |-> NoTexture] ELSE r.self,
                 !.samples = @ + 1,
                 !.px = <<x, y>>,
                 !.first = IF unit.samples = 0 THEN Opt(TRUE, r.tex) ELSE @,
                 !.last = Opt(TRUE, r.tex)]
    /\ UNCHANGED programVars

\* render_px(x, y): let this = self.clone(); let bgtex = this.get_background();
\* the clone is dropped with the call
SampleBackground ==
    /\ unit.fn = BgName
    /\ unit.samples < MaxSamples
    /\ \E x, y \in 0..MaxPx :
          LET this == unit.scene
              r == SceneGetBackground(this)
          IN  unit' = [unit EXCEPT
                 !.samples = @ + 1,
                 !.px = <<x, y>>,
                 !.first = IF unit.samples = 0 THEN Opt(TRUE, r.tex) ELSE @,
                 !.last = Opt(TRUE, r.tex)]
    /\ UNCHANGED programVars

\* render returns and the scene is rendered again
RenderAgain ==
    /\ unit.fn = BgName
    /\ unit.render < MaxSamples
    /\ unit' = [unit EXCEPT !.render = @ + 1]
    /\ UNCHANGED programVars

NextBackground == SampleBackground \/ RenderAgain

SpecBackground == InitBackground /\ [][NextBackground]_vars

\* ------------------------------------------------------------ DimIterator alone
\* A u32 of 2^31 or more is written as the negative integer it is in two's
\* complement (u32::MAX is -1), so that + is the wrapping sum of the release
\* build; the debug build panics where the sum wraps.
\* width and height in 0..MaxDim
MaxDim == 3
\* next() is called until it has returned None MaxNones times
MaxNones == 2

\* a + b does not fit a u32, for b in 0..2^31-1
AddOverflows(a, b) == a < 0 /\ a + b >= 0

\* the origins: 0, 3 as in tests::dimiterator_with_xy, and u32::MAX - 1
Origins == {0, 3, -2}

DimName == "DimIterator::next"

InitDim ==
    /\ ProgramIdle
    /\ \E w, h \in 0..MaxDim : \E sx, sy \in Origins :
          unit = [fn |-> DimName, it |-> DimCreate(w, h, sx, sy),
                  args |-> [width |-> w, height |-> h, sx |-> sx, sy |-> sy],
                  out |-> <<>>, nones |-> 0, panicked |-> FALSE]

\* the call it.next() reaches line 46 with a sum that does not fit
NextOverflows(it) ==
    LET r == DimNext(it).it
    IN  /\ ~it.done
        /\ it.width # 0 /\ it.height # 0
        /\ it.started
        /\ ~r.done
        /\ (AddOverflows(it.sx, r.x) \/ AddOverflows(it.sy, r.y))

\* it.next() returns: an item, collected as by collect(), or None
DimCall ==
    /\ unit.fn = DimName
    /\ ~unit.panicked
    /\ unit.nones < MaxNones
    /\ LET r == DimNext(unit.it)
       IN  unit' = [unit EXCEPT
              !.it = r.it,
              !.out = IF r.item.some THEN Append(@, r.item.v) ELSE @,
              !.nones = IF r.item.some THEN @ ELSE @ + 1]
    /\ UNCHANGED programVars

\* it.next() panics: attempt to add with overflow (debug build)
DimCallPanics ==
    /\ unit.fn = DimName
    /\ ~unit.panicked
    /\ unit.nones < MaxNones
    /\ NextOverflows(unit.it)
    /\ unit' = [unit EXCEPT !.panicked = TRUE]
    /\ UNCHANGED programVars

NextDim == DimCall \/ DimCallPanics

SpecDim == InitDim /\ [][NextDim]_vars

\* ------------------------------------------------------------ Camera::create_primary
\* Here an f64 is a whole number of thousandths, the quotients rounding
\* toward zero.
Milli == 1000
\* Perspective3::new(aspect, fovy, 0.01, 200.0)
znear == 10
zfar == 200000
\* images of 0..MaxCam by 0..MaxCam pixels
MaxCam == 6

\* (fovy / 2).tan() for the fields of view, in degrees, of the callers
TanHalf(fovy) ==
    CASE fovy = 30 -> 268
      [] fovy = 45 -> 414
      [] fovy = 50 -> 466

Abs(a) == IF a < 0 THEN -a ELSE a

\* Perspective3::unproject_point for a point of the near (z = -1) or the far
\* (z = 1) plane: x and y are scaled by the depth of the plane, the aspect
\* ratio and the tangent
unproject_point(perspective, p) ==
    LET depth == IF p.z < 0 THEN znear ELSE zfar
        t == TanHalf(perspective.fovy)
        sx == Quot(Quot(p.x * perspective.aspect[1], perspective.aspect[2]) * t, Milli)
        sy == Quot(p.y * t, Milli)
    IN  Vec(Quot(sx * depth, Milli), Quot(sy * depth, Milli), -depth)

\* Isometry3::inverse_transform_point for a rotation that is the identity
inverse_transform_point(isometry, p) ==
    Vec(p.x - isometry.translation[1], p.y - isometry.translation[2],
        p.z - isometry.translation[3])

\* Unit::new_normalize
new_normalize(v) ==
    LET len == Sqrt(v.x * v.x + v.y * v.y + v.z * v.z)
    IN  IF v.nan \/ len = 0 THEN NaNVec
        ELSE Vec(Quot(v.x * Milli, len), Quot(v.y * Milli, len), Quot(v.z * Milli, len))

\* (the pixel is not brought to -1..1: nds = normalized * 2.0)
create_primary_uncentred(cam, x, y) ==
    IF cam.width = 0 \/ cam.height = 0
      THEN [origin |-> NaNVec, direction |-> NaNVec]
    ELSE
      LET nds == [x |-> Quot(2 * x * Milli, cam.width),
                  y |-> Quot(2 * y * Milli, cam.height)]
          ndc_near == Vec(nds.x, nds.y, -Milli)
          ndc_far == Vec(nds.x, nds.y, Milli)
          origin == inverse_transform_point(cam.isometry,
                        unproject_point(cam.perspective, ndc_near))
          view_far == inverse_transform_point(cam.isometry,
                          unproject_point(cam.perspective, ndc_far))
          far_dir == Vec(Quot(view_far.x - origin.x, Milli),
                         Quot(view_far.y - origin.y, Milli),
                         Quot(view_far.z - origin.z, Milli))
      IN  [origin |-> origin, direction |-> new_normalize(far_dir)]

\* Camera::create_primary. x / width is 0.0 / 0.0 for an image without
\* columns; view_far - origin is taken in units (its length is about 200)
\* before it is normalized.
create_primary(cam, x, y) ==
    IF cam.width = 0 \/ cam.height = 0
      THEN [origin |-> NaNVec, direction |-> NaNVec]
    ELSE
      LET nds == [x |-> Quot((2 * x - cam.width) * Milli, cam.width),
                  y |-> Quot((2 * y - cam.height) * Milli, cam.height)]
          ndc_near == Vec(nds.x, nds.y, -Milli)
          ndc_far == Vec(nds.x, nds.y, Milli)
          origin == inverse_transform_point(cam.isometry,
                        unproject_point(cam.perspective, ndc_near))
          view_far == inverse_transform_point(cam.isometry,
                          unproject_point(cam.perspective, ndc_far))
          far_dir == Vec(Quot(view_far.x - origin.x, Milli),
                         Quot(view_far.y - origin.y, Milli),
                         Quot(view_far.z - origin.z, Milli))
      IN  [origin |-> origin, direction |-> new_normalize(far_dir)]

PrimaryName == "Camera::create_primary"

\* the identity, and the position of tests::camera_creates_primary:
\* Translation3::new(0.0, 0.0, -0.01)
NearIdentity == {<<0, 0, 0>>, <<0, 0, -znear>>}

\* Camera::new(width, height, fov), then set_position
InitPrimary ==
    /\ ProgramIdle
    /\ \E w, h \in 0..MaxCam : \E fov \in Fovs \cup {50} : \E pos \in NearIdentity :
          unit = [fn |-> PrimaryName,
                  cam |-> CameraSetPosition(CameraNew(w, h, fov), pos),
                  st |-> "call",
                  ray |-> [origin |-> zeros, direction |-> zeros]]

\* cam.create_primary(width / 2, height / 2)
CentreRay ==
    /\ unit.fn = PrimaryName
    /\ unit.st = "call"
    /\ unit' = [unit EXCEPT
          !.st = "returned",
          !.ray = create_primary(unit.cam, unit.cam.width \div 2,
                                 unit.cam.height \div 2)]
    /\ UNCHANGED programVars

SpecPrimary == InitPrimary /\ [][CentreRay]_vars

\* ------------------------------------------------------------ the tiles alone
\* widths and heights of up to MaxTilesAcross whole tiles, one pixel less and
\* one pixel more
MaxTilesAcross == 2

TileExtents ==
    {e \in {k * chunk_size + d : k \in 0..MaxTilesAcross, d \in {-1, 0, 1}} : e >= 0}

\* a scene of any of these sizes is handed to render
InitTiles ==
    /\ \E w, h \in TileExtents : scene = MkScene(CameraNew(w, h, 30), "None")
    /\ quiet = TRUE
    /\ num_cpus = 1
    /\ pc = "scene"
    /\ wh = <<0, 0>>
    /\ next_tile = <<0, 0>>
    /\ tasks = <<>>
    /\ txAlive = FALSE
    /\ rxAlive = FALSE
    /\ queue = <<>>
    /\ misses = 0
    /\ img = NoImage
    /\ i = 0
    /\ cur = NoMsg
    /\ calls = <<>>
    /\ writes = <<>>
    /\ oob = 0
    /\ reordered = FALSE
    /\ unit = NoUnit

NextTiles == RenderSetup \/ SpawnTile

\* render up to the end of its two spawning loops, no closure having run yet
SpecTiles == InitTiles /\ [][NextTiles]_vars

\* ------------------------------------------------------------ the reporting consumer
\* the consumer about to drain a channel of ReportEvery + 1 messages, all
\* Senders gone: the first and the one before the last are inside the image
\* or to the right of it, the others are the pixel (0, 0)
InitReporting ==
    /\ \E d \in SmallDims :
          /\ scene = MkScene(CameraNew(d[1], d[2], 30), "None")
          /\ wh = d
          /\ img = new_rgba8(d[1], d[2])
          /\ writes = [c \in (0..(d[1] - 1)) \X (0..(d[2] - 1)) |-> 0]
          /\ \E x1, x2 \in {0, d[1]} :
                queue = [k \in 1..(ReportEvery + 1) |->
                           <<IF k = 1 THEN x1 ELSE IF k = ReportEvery THEN x2 ELSE 0,
                             0, MkColor(1, 1, 0, 1)>>]
    /\ quiet \in BOOLEAN
    /\ num_cpus = 1
    /\ pc = "recv"
    /\ next_tile = <<0, 1>>
    /\ tasks = <<>>
    /\ txAlive = FALSE
    /\ rxAlive = TRUE
    /\ misses = 0
    /\ i = 0
    /\ cur = NoMsg
    /\ calls = <<>>
    /\ oob = 0
    /\ reordered = FALSE
    /\ unit = NoUnit

\* the program, and besides it the consumer run on these messages
SpecReporting == (Init \/ InitReporting) /\ [][Next]_vars

\* ------------------------------------------------------------ the setters alone
\* starless Scene::set_camera: the pose is replaced only when both the
\* translation and the rotation are given
starless_SceneSetCamera(s, trans, rot, fov) ==
    LET cam == s.camera
        posed == IF trans.some /\ rot.some
                   THEN [cam EXCEPT !.isometry = FromParts(trans.v, rot.v)]
                   ELSE cam
    IN  [s EXCEPT !.camera =
            IF fov.some THEN [posed EXCEPT !.perspective.fovy = fov.v]
            ELSE posed]

SetterName == "Scene::set_camera"
Crates == {"gargantua", "starless"}
NoArgs == [trans |-> Opt(FALSE, <<0, 0, 0>>), rot |-> Opt(FALSE, "id"),
           fov |-> Opt(FALSE, 0)]

\* a scene of either crate, built with Camera::new; before and after are
\* the scene around the latest call of a setter
InitSetters ==
    /\ ProgramIdle
    /\ \E c \in Crates, d \in SmallDims :
          LET s == MkScene(CameraNew(d[1], d[2], 30), "None")
          IN  unit = [fn |-> SetterName, crate |-> c, op |-> "Camera::new",
                      args |-> NoArgs, before |-> s, after |-> s]

\* scn.set_camera(trans, rot, fov)
CallSetCamera ==
    /\ unit.fn = SetterName
    /\ \E ht, hr, hf \in BOOLEAN :
       \E trans \in Translations, rot \in Rotations, fov \in Fovs :
          LET a == [trans |-> Opt(ht, trans), rot |-> Opt(hr, rot), fov |-> Opt(hf, fov)]
          IN  unit' = [unit EXCEPT
                 !.op = "set_camera",
                 !.args = a,
                 !.before = unit.after,
                 !.after = IF unit.crate = "gargantua"
                             THEN SceneSetCamera(unit.after, a.trans, a.rot, a.fov)
                             ELSE starless_SceneSetCamera(unit.after, a.trans, a.rot, a.fov)]
    /\ UNCHANGED programVars

\* scn.camera.set_position(pos): the same code in both crates
CallSetPosition ==
    /\ unit.fn = SetterName
    /\ \E pos \in Translations :
          unit' = [unit EXCEPT
             !.op = "set_position",
             !.args = [NoArgs EXCEPT !.trans = Opt(TRUE, pos)],
             !.before = unit.after,
             !.after = [unit.after EXCEPT !.camera = CameraSetPosition(@, pos)]]
    /\ UNCHANGED programVars

\* scn.camera.set_rotation(rot): the same code in both crates
CallSetRotation ==
    /\ unit.fn = SetterName
    /\ \E rot \in Rotations :
          unit' = [unit EXCEPT
             !.op = "set_rotation",
             !.args = [NoArgs EXCEPT !.rot = Opt(TRUE, rot)],
             !.before = unit.after,
             !.after = [unit.after EXCEPT !.camera = CameraSetRotation(@, rot)]]
    /\ UNCHANGED programVars

NextSetters == CallSetCamera \/ CallSetPosition \/ CallSetRotation

SpecSetters == InitSetters /\ [][NextSetters]_vars

\* ------------------------------------------------------------ GRScene::render
\* images of 0..MaxGRDim by 0..MaxGRDim pixels
MaxGRDim == 4
\* if i % 10 == 0
GRReportEvery == 10

GRRenderName == "GRScene::render"

\* the colour render_px gives the pixel: the sphere texture's or the
\* background's, as for the flat scene of the same size
GRPixel(wh0, x, y) == render_px(MkScene(CameraNew(wh0[1], wh0[2], 30), "None"), x, y)

\* render(dt, max_iter, reporter) has made its zeroed image and the call
\* (0.0, "Creating background image...") if it has a reporter
InitGRRender ==
    /\ ProgramIdle
    /\ \E w, h \in 0..MaxGRDim : \E rep \in BOOLEAN :
          unit = [fn |-> GRRenderName, wh |-> <<w, h>>, reporter |-> rep,
                  img |-> new_rgba8(w, h), k |-> 0, st |-> "loop",
                  calls |-> IF rep
                              THEN <<[p |-> Ratio(0, 1),
                                      msg |-> "Creating background image..."]>>
                              ELSE <<>>]

\* one iteration over enumerate_pixels_mut().enumerate(): the pixel k in
\* row-major order; the report and the assignment *p = ... are both inside
\* if let Some(f) = reporter
GRRenderPixel ==
    /\ unit.fn = GRRenderName
    /\ unit.st = "loop"
    /\ unit.k < unit.wh[1] * unit.wh[2]
    /\ LET x == unit.k % unit.wh[1]
           y == unit.k \div unit.wh[1]
           pos == unit.wh[1] * y + x
           total == unit.wh[2] * unit.wh[1]
       IN  unit' = [unit EXCEPT
              !.k = @ + 1,
              !.calls = IF unit.reporter /\ unit.k % GRReportEvery = 0
                          THEN Append(@, [p |-> Ratio(pos, total),
                                          msg |-> "Raytracing..."])
                          ELSE @,
              !.img = IF unit.reporter
                        THEN put_pixel(@, x, y,
                                 color_to_rgba(GRPixel(unit.wh, x, y)))
                        ELSE @]
    /\ UNCHANGED programVars

\* the loop is over: (1.0, "Done.") if there is a reporter, and Ok(img)
GRRenderDone ==
    /\ unit.fn = GRRenderName
    /\ unit.st = "loop"
    /\ unit.k = unit.wh[1] * unit.wh[2]
    /\ unit' = [unit EXCEPT
          !.st = "ok",
          !.calls = IF unit.reporter
                      THEN Append(@, [p |-> Ratio(1, 1), msg |-> "Done."])
                      ELSE @]
    /\ UNCHANGED programVars

NextGRRender == GRRenderPixel \/ GRRenderDone

SpecGRRender == InitGRRender /\ [][NextGRRender]_vars

\* ------------------------------------------------------------ GRScene::render_threading
\* images of 0..MaxRT by 0..MaxRT pixels
MaxRT == 5
\* let num_threads = 9: (9 as f32).sqrt().ceil() columns and
\* (9 / 3 as f64).sqrt().ceil() rows
rt_num_columns == 3
rt_num_rows == 2

RTName == "GRScene::render_threading"

\* the closure spawned for (ww, hh): DimIterator::create(NW, NE, SW, SE)
RTTile(width, height, ww, hh) ==
    LET chunk_width == width \div rt_num_columns
        chunk_height == height \div rt_num_rows
        SW == chunk_width * ww
        SE == chunk_height * hh
        NW == Min(chunk_width * (ww + 1), width)
        NE == Min(chunk_height * (hh + 1), height)
    IN  DimCreate(NW, NE, SW, SE)

\* the consumer's loop body for the message (x, y, col): the coordinate is
\* noted, and put_pixel panics outside the image
RTStore(u, x, y) ==
    IF u.st = "panicked" THEN u
    ELSE [u EXCEPT !.i = @ + 1,
                   !.overdrawn = @ \/ <<x, y>> \in u.seen,
                   !.seen = @ \cup {<<x, y>>},
                   !.st = IF x < u.wh[1] /\ y < u.wh[2] THEN @ ELSE "panicked"]

\* every message of the closure whose iterator is it, sent and received
RECURSIVE RTDrain(_, _)
RTDrain(u, it) ==
    LET r == DimNext(it)
    IN  IF ~r.item.some THEN u
        ELSE RTDrain(RTStore(u, r.item.v[1], r.item.v[2]), r.it)

\* render_threading is entered: nothing is spawned yet
InitRT ==
    /\ ProgramIdle
    /\ \E w, h \in 0..MaxRT :
          unit = [fn |-> RTName, wh |-> <<w, h>>, ww |-> 0, hh |-> 0,
                  tiles |-> <<>>, ran |-> {}, seen |-> {}, i |-> 0,
                  overdrawn |-> FALSE, st |-> "spawn"]

\* one iteration of for ww in 0..num_columns { for hh in 0..num_rows; after
\* the last, drop(tx) and the image is made
RTSpawn ==
    /\ unit.fn = RTName
    /\ unit.st = "spawn"
    /\ LET last_row == unit.hh + 1 >= rt_num_rows
           last_col == unit.ww + 1 >= rt_num_columns
       IN  unit' = [unit EXCEPT
              !.tiles = Append(@, RTTile(unit.wh[1], unit.wh[2], unit.ww, unit.hh)),
              !.hh = IF last_row THEN 0 ELSE @ + 1,
              !.ww = IF last_row THEN @ + 1 ELSE @,
              !.st = IF last_row /\ last_col THEN "recv" ELSE "spawn"]
    /\ UNCHANGED programVars

\* the closure spawned t-th runs to its end and the consumer receives its
\* messages, in the order they were sent
RTRunTile ==
    /\ unit.fn = RTName
    /\ unit.st = "recv"
    /\ \E t \in DOMAIN unit.tiles \ unit.ran :
          unit' = RTDrain([unit EXCEPT !.ran = @ \cup {t}], unit.tiles[t])
    /\ UNCHANGED programVars

\* every Sender is dropped and the channel is empty: Ok(img)
RTReturn ==
    /\ unit.fn = RTName
    /\ unit.st = "recv"
    /\ unit.ran = DOMAIN unit.tiles
    /\ unit' = [unit EXCEPT !.st = "ok"]
    /\ UNCHANGED programVars

NextRT == RTSpawn \/ RTRunTile \/ RTReturn

SpecRT == InitRT /\ [][NextRT]_vars

\* ------------------------------------------------------------ fair scheduling
\* the steps of the thread that called render, its callback returning
MainThread ==
    \/ RenderSetup
    \/ SpawnTile
    \/ DropTxNewImage
    \/ DropTxNoImage
    \/ RecvMsg
    \/ CallbackReturn
    \/ RecvEnd

\* the steps of the closure spawned t-th: taken by a pool thread, run, ended
WorkerStep(t) == WorkerStart(t) \/ WorkerPixel(t) \/ WorkerExit(t)

\* the small images, the image of more than 40 pixels, and the images of two
\* tiles whose second tile is empty or a single pixel
FairDims ==
    SmallDims \cup StripDims \cup {<<chunk_size, 1>>, <<chunk_size + 1, 1>>}

InitFair == Init /\ get_dimensions(scene) \in FairDims

\* the places in spawn order of the closures of the images rendered
TaskIds == UNION {1..(num_columns(d[1]) * num_rows(d[2])) : d \in FairDims}

\* the program, the calling thread going on while it can and the pool running
\* every closure it was handed
SpecFair ==
    /\ InitFair
    /\ [][NextFail]_vars
    /\ WF_vars(MainThread)
    /\ \A t \in TaskIds : WF_vars(WorkerStep(t))

\* ------------------------------------------------------------ claims
Returned == pc \in {"ok", "done"}

\* the pixel coordinates of the scene's image
Coords(s) == (0..(s.camera.width - 1)) \X (0..(s.camera.height - 1))

\* C1: when render has returned Ok, every pixel coordinate of the image has
\* been written exactly once: none was received twice, none is missing, and
\* no other coordinate was received.
C1_EachPixelWrittenOnce ==
    Returned =>
        /\ DOMAIN writes = Coords(scene)
        /\ \A c \in Coords(scene) : writes[c] = 1
        /\ oob = 0
        /\ i = scene.camera.width * scene.camera.height

\* a render of two non-empty tiles on two pool threads has returned
C1_Witness ==
    /\ pc = "ok"
    /\ num_threads = 2
    /\ Len(tasks) = 2
    /\ \A t \in DOMAIN tasks : tasks[t].sent > 0

\* the image of one tile's pixels, taken in iterator order, written into im
RECURSIVE DrainTile(_, _, _)
DrainTile(s, it, im) ==
    LET r == DimNext(it)
        x == r.item.v[1]
        y == r.item.v[2]
    IN  IF ~r.item.some THEN im
        ELSE DrainTile(s, r.it,
                 IF in_bounds(im, x, y)
                   THEN put_pixel(im, x, y, color_to_rgba(render_px(s, x, y)))
                   ELSE im)

\* the image of the tiles k, k+1, ... taken one after the other in spawn order
RECURSIVE DrainTiles(_, _, _)
DrainTiles(s, k, im) ==
    LET d == get_dimensions(s)
        cols == num_columns(d[1])
    IN  IF k >= cols * num_rows(d[2]) THEN im
        ELSE DrainTiles(s, k + 1,
                 DrainTile(s, TileIterator(d[1], d[2], k % cols, k \div cols), im))

\* the image one thread produces running the tiles one after the other, each
\* message received as soon as it is sent
OneThreadImage(s) ==
    LET d == get_dimensions(s) IN DrainTiles(s, 0, new_rgba8(d[1], d[2]))

\* C2: whatever the order in which the tile workers ran and the messages
\* arrived, and whatever the number of pool threads, the image render returns
\* is the one the scene yields on the single-thread, in-order schedule: it
\* depends on the scene alone.
C2_ImageIndependentOfSchedule == Returned => img = OneThreadImage(scene)

\* a render has returned in which a message arrived after one of a later tile
C2_Witness == pc = "ok" /\ reordered /\ num_threads = 2

\* C3: with the tiles clipped to the image, the miss counter is zero in every
\* state: no message is out of bounds and no send fails.
C3_NoMisses ==
    /\ misses = 0
    /\ oob = 0
    /\ \A t \in DOMAIN tasks : tasks[t].failed = 0

\* a render of an image whose width is the tile size has returned: its
\* trailing tile was empty
C3_Witness ==
    /\ pc = "ok"
    /\ wh = <<chunk_size, 1>>
    /\ Len(tasks) = 2
    /\ tasks[2].it.width = 0
    /\ tasks[2].st = "done"
    /\ tasks[2].sent = 0

\* C4: when a reporter is supplied and the render succeeded, the last
\* invocation of the reporter, once run has finished, has fraction 1.0.
C4_FinalReportIsOne ==
    (pc = "done" /\ HasReporter) =>
        /\ calls # <<>>
        /\ RatioEq(calls[Len(calls)].p, Ratio(1, 1))

\* run has finished after a render that reported at messages 0 and 40
C4_Witness == pc = "done" /\ HasReporter /\ Len(calls) = 3

\* pixel work: some worker has computed a colour (and sent it or failed to)
PixelWorkDone == \E t \in DOMAIN tasks : tasks[t].sent + tasks[t].failed > 0

\* C5: no pixel colour is computed and no message is sent before every step
\* that can produce a setup error (the pool, the image buffer) has succeeded.
C5_SetupBeforePixelWork ==
    PixelWorkDone => (pc \in {"recv", "callback", "ok", "done"} /\ img # NoImage)

\* the number of pixels of a task's tile
TilePixels(task) == task.it.width * task.it.height

\* C6: a failed send is counted as exactly one miss and leaves the worker
\* running: every worker that has finished has processed every pixel of its
\* tile, sent or failed.
C6_FailedSendCountedWorkerGoesOn ==
    /\ [](\A t \in DOMAIN tasks :
            tasks[t].st = "done" =>
                tasks[t].sent + tasks[t].failed = TilePixels(tasks[t]))
    /\ [][\A t \in DOMAIN tasks :
            tasks'[t].failed # tasks[t].failed =>
                /\ tasks'[t].failed = tasks[t].failed + 1
                /\ misses' = misses + 1
                /\ tasks'[t].st = "running"
                /\ tasks'[t].sent = tasks[t].sent]_vars

\* the consumer is gone and a worker has finished its tile through two or
\* more failed sends
C6_Witness ==
    /\ pc = "err_image"
    /\ \E t \in DOMAIN tasks :
          /\ tasks[t].st = "done"
          /\ tasks[t].failed >= 2
          /\ tasks[t].sent >= 1
    /\ misses >= 2

\* the number of failed sends of the tasks 1..k
RECURSIVE FailedSends(_)
FailedSends(k) == IF k = 0 THEN 0 ELSE tasks[k].failed + FailedSends(k - 1)

\* C7: a message inside the image is written and leaves the miss counter
\* alone; a message outside it leaves the buffer alone and adds exactly one
\* miss, and the consumer goes on; the miss counter is the number of failed
\* sends plus the number of out-of-bounds messages.
C7_ConsumerWritesOrCounts ==
    /\ [](misses = FailedSends(Len(tasks)) + oob)
    /\ [][i' # i =>
            LET m == IF pc = "callback" THEN cur ELSE Head(queue)
                inside == m[1] < wh[1] /\ m[2] < wh[2]
            IN  /\ i' = i + 1
                /\ pc' = "recv"
                /\ IF inside
                     THEN /\ img' = [img EXCEPT !.buf[<<m[1], m[2]>>] =
                                                   color_to_rgba(m[3])]
                          /\ misses' = misses
                     ELSE /\ img' = img
                          /\ misses' = misses + 1]_vars

\* the consumer has returned after an out-of-bounds and an in-bounds message
C7_Witness ==
    /\ pc = "ok"
    /\ oob = 1
    /\ misses = 1
    /\ i = 2
    /\ \E c \in DOMAIN writes : writes[c] = 1

\* C8: the image render returns has the dimensions of the scene's camera.
C8_ImageHasCameraDimensions ==
    Returned => (img.w = scene.camera.width /\ img.h = scene.camera.height)

\* a scene resized with set_size to a non-square size has been rendered
C8_Witness ==
    /\ pc = "ok"
    /\ scene.camera.width # scene.camera.height
    /\ scene.camera.perspective.aspect =
           Ratio(scene.camera.width, scene.camera.height)

\* C9: the projection's aspect ratio is width / height of the camera.
C9_AspectIsWidthOverHeight ==
    RatioEq(scene.camera.perspective.aspect,
            Ratio(scene.camera.width, scene.camera.height))

\* a running worker whose iterator has a pixel left
HasPixelLeft(t) == tasks[t].st = "running" /\ DimNext(tasks[t].it).item.some

\* C10: while the consumer is inside the callback, every running worker with
\* a pixel left can compute and send it: the send does not wait.
C10_CallbackDoesNotBlockWorkers ==
    \A t \in DOMAIN tasks :
        (pc = "callback" /\ HasPixelLeft(t)) => ENABLED WorkerPixel(t)

\* the consumer is inside the callback, messages are waiting in the channel
\* and a worker that has sent some still has pixels to send
C10_Witness ==
    /\ pc = "callback"
    /\ Len(queue) >= 2
    /\ \E t \in DOMAIN tasks : HasPixelLeft(t) /\ tasks[t].sent >= 3

\* C11: the integrator guards the zero distance: at no position reached
\* during the integration is the force evaluated with a denominator pos_fifth
\* that is zero.
C11_ForceNeverDividesByZero == unit.fn = GRName => ~unit.zero_div

\* |a x b|^2, in 1/Unit^4
Cross2(a, b) ==
    LET cx == a.y * b.z - a.z * b.y
        cy == a.z * b.x - a.x * b.z
        cz == a.x * b.y - a.y * b.x
    IN  cx * cx + cy * cy + cz * cz

\* C12: the h2 handed to the force at every step of a particle is the
\* |position x velocity|^2 of its initial state.
C12_H2FromInitialState ==
    unit.fn = GRName =>
        \A j \in DOMAIN unit.h2s :
            unit.h2s[j] * Unit * Unit * Unit =
                Cross2(unit.ray.origin, unit.ray.direction)

\* the particle is where the ray is after unit.k steps of length dt
OnRay ==
    LET step == VMul(unit.ray.direction, unit.part.dt)
        p == unit.part.particle
    IN  /\ ~p.pos.nan
        /\ p.vel = unit.ray.direction
        /\ p.pos = Vec(unit.ray.origin.x + unit.k * step.x,
                       unit.ray.origin.y + unit.k * step.y,
                       unit.ray.origin.z + unit.k * step.z)

GRReturned == unit.fn = GRName /\ unit.st \in {"returned", "rendered"}

\* the ray does not start inside the sphere
StartsOutside ==
    LET l == VSub(unit.sphere.pos, unit.ray.origin)
    IN  Dot(l, l) >= unit.sphere.radius * unit.sphere.radius

C14_SampleFollowsParticle ==
    (unit.fn = GRName /\ unit.st = "rendered") =>
        IF unit.ret.some
          THEN /\ unit.sample.tex = "sphere"
               /\ unit.ret.v = unit.part.particle.pos
               /\ unit.sample.of = VSub(unit.part.particle.pos, unit.sphere.pos)
          ELSE /\ unit.sample.tex = "bg"
               /\ unit.k = unit.max_iter
               /\ unit.sample.of = unit.part.particle.vel

\* a particle that was deflected and not captured in three steps or more has
\* been given its colour
C14_Witness ==
    /\ unit.fn = GRName
    /\ unit.st = "rendered"
    /\ ~unit.ret.some
    /\ unit.k >= 3
    /\ ~unit.part.particle.vel.nan
    /\ unit.part.particle.vel # unit.ray.direction

\* the squared distance from the sphere centre to the line of the ray, in
\* 1/Unit^2, and the two roots adj -/+ sqrt(r2 - d2)
PerpDist2(sphere, ray) ==
    LET l == VSub(sphere.pos, ray.origin)
        adj == Quot(Dot(l, ray.direction), Unit)
    IN  Dot(l, l) - adj * adj

Roots(sphere, ray) ==
    LET l == VSub(sphere.pos, ray.origin)
        adj == Quot(Dot(l, ray.direction), Unit)
        half == Sqrt(sphere.radius * sphere.radius - PerpDist2(sphere, ray))
    IN  {adj - half, adj + half}

\* C15: Sphere::intersect returns None when the line of the ray misses the
\* sphere or both roots are negative; otherwise it returns the smallest root
\* that is not negative.
C15_NearestNonNegativeRoot ==
    (unit.fn = IntersectName /\ unit.st = "returned") =>
        LET misses_line == PerpDist2(unit.sphere, unit.ray) >
                               unit.sphere.radius * unit.sphere.radius
            ahead == {t \in Roots(unit.sphere, unit.ray) : t >= 0}
        IN  IF misses_line \/ ahead = {}
              THEN ~unit.ret.some
              ELSE /\ unit.ret.some
                   /\ unit.ret.v \in ahead
                   /\ \A t \in ahead : unit.ret.v <= t

\* a ray that enters the sphere ahead of its origin and leaves it further on
C15_Witness ==
    /\ unit.fn = IntersectName
    /\ unit.st = "returned"
    /\ unit.ret.some
    /\ unit.ret.v > 0
    /\ \E t \in Roots(unit.sphere, unit.ray) : t > unit.ret.v

\* C16: in each renderer the texture coordinates of the point centre + d of
\* the sphere are those the background is looked up at for a ray of direction
\* d.
C16_SameUVMapping ==
    (unit.fn = UVName /\ unit.st = "returned") =>
        /\ RatioEq(unit.sphere_uv.u, unit.sky_uv.u)
        /\ RatioEq(unit.sphere_uv.v, unit.sky_uv.v)

\* C17: every render_px call of a scene, in one render and in the next, gets
\* the same background content: the supplied texture, or the 50 x 50
\* checkerboard when none is supplied; and the scene's bgtex is left as it was.
C17_BackgroundIsStable ==
    (unit.fn = BgName /\ unit.samples > 0) =>
        /\ unit.scene.bgtex = unit.bgtex0
        /\ unit.last = unit.first
        /\ unit.last.v = IF unit.bgtex0.some THEN unit.bgtex0.v
                         ELSE create_bg_texture(BgSize, BgSize)

\* a scene without bgtex was sampled in its second render, having been
\* sampled before, at a pixel other than (0, 0)
C17_Witness ==
    /\ unit.fn = BgName
    /\ ~unit.bgtex0.some
    /\ unit.samples >= 2
    /\ unit.render = 2
    /\ unit.px # <<0, 0>>
    /\ unit.last.some

\* what has been yielded so far is the start of the row-major enumeration
\* (sx + i, sy + j) of the rectangle, every coordinate fitting a u32, and a
\* None came only after all width * height coordinates, with nothing after it
RowMajorSoFar ==
    LET a == unit.args
    IN  /\ ~unit.panicked
        /\ Len(unit.out) <= a.width * a.height
        /\ \A n \in DOMAIN unit.out :
              LET col == (n - 1) % a.width
                  row == (n - 1) \div a.width
              IN  /\ unit.out[n] = <<a.sx + col, a.sy + row>>
                  /\ ~AddOverflows(a.sx, col)
                  /\ ~AddOverflows(a.sy, row)
        /\ unit.nones > 0 => Len(unit.out) = a.width * a.height

\* C18 as stated: for every width, height and origin the iterator yields the
\* width * height coordinates of the rectangle in row-major order, then None
\* for ever.
C18_YieldsRowMajor == unit.fn = DimName => RowMajorSoFar

\* the last coordinates of the rectangle fit a u32, or the rectangle is empty
RectangleFits ==
    LET a == unit.args
    IN  \/ a.width = 0
        \/ a.height = 0
        \/ (~AddOverflows(a.sx, a.width - 1) /\ ~AddOverflows(a.sy, a.height - 1))

\* C18, amended: the same for a rectangle whose coordinates fit a u32; only
\* for one that does not fit can a call panic.
C18_YieldsRowMajorWhenItFits ==
    unit.fn = DimName =>
        /\ RectangleFits => RowMajorSoFar
        /\ unit.panicked => ~RectangleFits

\* a rectangle of two rows and two columns or more, not at the origin, was
\* enumerated and None returned twice
C18_Witness ==
    /\ unit.fn = DimName
    /\ unit.args.width >= 2
    /\ unit.args.height >= 2
    /\ unit.args.sx = 3
    /\ unit.nones = MaxNones
    /\ Len(unit.out) = unit.args.width * unit.args.height

\* assert_relative_eq!(a, b, epsilon = 0.01) on vectors: every component
\* within 0.01
Within(a, b) ==
    /\ ~a.nan
    /\ Abs(a.x - b.x) <= znear
    /\ Abs(a.y - b.y) <= znear
    /\ Abs(a.z - b.z) <= znear

\* the ray of create_primary(width / 2, height / 2) starts within 0.01 of the
\* camera's position and points within 0.01 of (0, 0, -1)
CentreRayIsForward ==
    LET t == unit.cam.isometry.translation
    IN  /\ Within(unit.ray.origin, Vec(t[1], t[2], t[3]))
        /\ Within(unit.ray.direction, Vec(0, 0, -Milli))

\* C19 as stated: for a camera at or near the identity pose, of any size.
C19_CentreRayIsForward ==
    (unit.fn = PrimaryName /\ unit.st = "returned") => CentreRayIsForward

\* C19, amended: for a camera whose width and height are even and not zero,
\* so that (width / 2, height / 2) is the centre of the image.
C19_CentreRayIsForwardForEvenSizes ==
    (/\ unit.fn = PrimaryName
     /\ unit.st = "returned"
     /\ unit.cam.width > 0 /\ unit.cam.width % 2 = 0
     /\ unit.cam.height > 0 /\ unit.cam.height % 2 = 0) => CentreRayIsForward

\* the centre ray of an image that is not square, for the camera position of
\* the test
C19_Witness ==
    /\ unit.fn = PrimaryName
    /\ unit.st = "returned"
    /\ unit.cam.width = 4
    /\ unit.cam.height = 2
    /\ unit.cam.isometry.translation = <<0, 0, -znear>>
    /\ unit.ray.direction = Vec(0, 0, -Milli)

\* the pixel (x, y) is one of those the closure of the task enumerates
InTile(task, x, y) ==
    /\ task.it.sx <= x /\ x < task.it.sx + task.it.width
    /\ task.it.sy <= y /\ y < task.it.sy + task.it.height

\* C20: every tile spawned has its origin at a multiple of 32 not beyond the
\* image, so that width - x and height - y do not underflow, and the size
\* min(32, width - x) by min(32, height - y); once the loops are over there are
\* (1 + width / 32) * (1 + height / 32) tiles, every tile lies inside the
\* image and every pixel of the image is in exactly one tile.
C20_TilesPartitionImage ==
    (pc \in {"spawn", "drop_tx"}) =>
        /\ \A t \in DOMAIN tasks :
              LET it == tasks[t].it
                  cx == (t - 1) % (1 + wh[1] \div chunk_size)
                  cy == (t - 1) \div (1 + wh[1] \div chunk_size)
              IN  /\ it.sx = chunk_size * cx /\ it.sy = chunk_size * cy
                  /\ it.sx <= wh[1] /\ it.sy <= wh[2]
                  /\ it.width = Min(chunk_size, wh[1] - it.sx)
                  /\ it.height = Min(chunk_size, wh[2] - it.sy)
                  /\ it.sx + it.width <= wh[1]
                  /\ it.sy + it.height <= wh[2]
        /\ pc = "drop_tx" =>
              /\ Len(tasks) = (1 + wh[1] \div chunk_size) * (1 + wh[2] \div chunk_size)
              /\ \A x \in 0..(wh[1] - 1), y \in 0..(wh[2] - 1) :
                    Cardinality({t \in DOMAIN tasks : InTile(tasks[t], x, y)}) = 1

\* the six tiles of an image of 33 by 65 pixels are spawned, the last a single
\* pixel
C20_Witness ==
    /\ pc = "drop_tx"
    /\ wh = <<chunk_size + 1, 2 * chunk_size + 1>>
    /\ Len(tasks) = 6
    /\ tasks[6].it.width = 1
    /\ tasks[6].it.height = 1
    /\ tasks[6].it.sx = chunk_size


\* C21: once the pool is built, render returns (Ok, or Err for want of an
\* image buffer) whenever the calling thread and every spawned closure keep
\* being run; and the receive loop ends only when render's own Sender and the
\* Sender of every closure are dropped, every closure having finished with
\* all the pixels of its tile sent and received.
C21_RenderReturns ==
    /\ (pc = "spawn") ~> (pc \in {"ok", "err_image"})
    /\ [][(pc = "recv" /\ pc' = "ok") =>
            /\ ~txAlive
            /\ \A t \in DOMAIN tasks :
                  tasks[t].st = "done" /\ ~DimNext(tasks[t].it).item.some]_vars
    /\ [](pc = "ok" =>
            /\ queue = <<>>
            /\ \A t \in DOMAIN tasks : tasks[t].sent = TilePixels(tasks[t])
            /\ i = wh[1] * wh[2])

\* render has returned Ok for an image of two tiles run one after the other
\* on a single pool thread, the second tile holding a pixel
C21_Witness ==
    /\ pc = "ok"
    /\ Len(tasks) = 2
    /\ num_threads = 1
    /\ tasks[2].sent > 0

\* C22: with a reporter the consumer has called it once for each message
\* whose zero-based arrival index is a multiple of 40, with the fraction
\* index / (width * height), and the status mentions the misses exactly when
\* the counter read at the call was not zero; the call is made before the
\* message is stored. Without a reporter render calls nothing.
C22_ReportsEveryFortieth ==
    /\ [](pc \in {"recv", "callback", "ok"} =>
            IF HasReporter
              THEN /\ Len(calls) = IF pc = "callback" THEN i \div 40 + 1
                                   ELSE (i + 39) \div 40
                   /\ pc = "callback" => i % 40 = 0
                   /\ \A k \in DOMAIN calls :
                         /\ calls[k].p = <<40 * (k - 1), wh[1] * wh[2]>>
                         /\ calls[k].msg = "Raytracing (missed/overshot pixels)..."
                               <=> calls[k].nm > 0
                         /\ calls[k].msg = "Raytracing..." <=> calls[k].nm = 0
              ELSE calls = <<>> /\ pc # "callback")
    /\ [][(pc = "recv" /\ calls' # calls) =>
            /\ Len(calls') = Len(calls) + 1
            /\ calls'[Len(calls')].nm = misses
            /\ i' = i]_vars

\* the consumer has returned having reported at message 0 without misses and
\* at message 40 with the misses there were by then
C22_Witness ==
    /\ pc = "ok"
    /\ HasReporter
    /\ Len(calls) = 2
    /\ calls[1].nm = 0
    /\ calls[2].nm > 0
    /\ calls[2].msg = "Raytracing (missed/overshot pixels)..."

\* C23: from the step that enters render to the one that returns from it, no
\* step of the calling thread or of a worker changes the scene: its camera,
\* its sphere and its bgtex are what they were when render was entered.
C23_SceneNotModifiedDuringRender ==
    [][(pc # "scene" \/ pc' # "scene") =>
          /\ scene'.camera = scene.camera
          /\ scene'.sphere = scene.sphere
          /\ scene'.bgtex = scene.bgtex]_vars

\* a scene without bgtex has been rendered on two pool threads, and a pixel
\* of its image has the colour of the checkerboard made for the occasion
C23_Witness ==
    /\ pc = "ok"
    /\ scene.bgtex = "None"
    /\ Len(tasks) = 2
    /\ num_threads = 2
    /\ \E c \in DOMAIN img.buf :
          /\ ~HitsSphere(scene, c[1], c[2])
          /\ img.buf[c] = color_to_rgba(TexColor("checkerboard", c[1], c[2]))

\* C24: the particle starts every step with a zero acceleration; a step
\* leaves it with velocity + force * dt as its velocity, with position + (that
\* new velocity) * dt as its position, and with a zero acceleration again, the
\* force being the one evaluated at the position the step started from.
C24_StepIsSemiImplicitEuler ==
    /\ [](unit.fn = GRName => unit.part.particle.acc = zeros)
    /\ [][(unit.fn = GRName /\ unit'.k # unit.k) =>
            LET p == unit.part.particle
                dt == unit.part.dt
                force == gr_potential(VSub(p.pos, unit.sphere.pos), unit.h2)
                acc1 == VAdd(zeros, force)
                vel1 == VAdd(p.vel, VMul(acc1, dt))
                pos1 == VAdd(p.pos, VMul(vel1, dt))
            IN  /\ unit'.k = unit.k + 1
                /\ unit'.part.particle.vel = vel1
                /\ unit'.part.particle.pos = pos1
                /\ unit'.part.particle.acc = zeros]_vars

\* a particle in its third step or later, deflected from its ray and moving
\* with dt = 2.0
C24_Witness ==
    /\ unit.fn = GRName
    /\ unit.st = "loop"
    /\ unit.k >= 2
    /\ unit.k < unit.max_iter
    /\ unit.part.dt = 2 * One
    /\ ~unit.part.particle.pos.nan
    /\ unit.part.particle.vel # unit.ray.direction

\* the particle is strictly inside the sphere
StrictlyInside(sphere, pos) ==
    /\ ~pos.nan
    /\ (sphere.pos.x - pos.x) * (sphere.pos.x - pos.x)
         + (sphere.pos.y - pos.y) * (sphere.pos.y - pos.y)
         + (sphere.pos.z - pos.z) * (sphere.pos.z - pos.z)
         < sphere.radius * sphere.radius

\* C25: intersect takes at most max_iter steps and returns; while it loops no
\* update has left the particle strictly inside the sphere; it returns
\* Some(position) with the particle, after one update or more, strictly
\* inside at that position, and None after max_iter steps otherwise; with
\* max_iter = 0 it returns None and the particle is the one it was given.
C25_IntersectTerminates ==
    /\ <>GRReturned
    /\ [](unit.fn = GRName =>
            /\ unit.k <= unit.max_iter
            /\ (unit.st = "loop" /\ unit.k > 0) =>
                  ~StrictlyInside(unit.sphere, unit.part.particle.pos)
            /\ GRReturned =>
                  IF unit.ret.some
                    THEN /\ unit.k >= 1
                         /\ unit.ret.v = unit.part.particle.pos
                         /\ StrictlyInside(unit.sphere, unit.ret.v)
                    ELSE /\ unit.k = unit.max_iter
                         /\ unit.k > 0 =>
                               ~StrictlyInside(unit.sphere, unit.part.particle.pos)
            /\ unit.max_iter = 0 =>
                  /\ ~unit.ret.some
                  /\ unit.part.particle = from_ray(unit.ray))

\* intersect has returned None, without a step, for a particle that starts
\* strictly inside the sphere
C25_Witness ==
    /\ GRReturned
    /\ unit.max_iter = 0
    /\ ~unit.ret.some
    /\ StrictlyInside(unit.sphere, unit.ray.origin)
    /\ unit.ray.origin # unit.sphere.pos

\* C26: a setter changes only what it is given. After set_camera the
\* translation is the one given, or the one before when none was given, and
\* so for the rotation and the field of view; after set_position and
\* set_rotation likewise; width, height and aspect ratio are those before.
C26_SettersChangeOnlyWhatGiven ==
    (unit.fn = SetterName /\ unit.op # "Camera::new") =>
        LET b == unit.before.camera
            a == unit.after.camera
        IN  /\ a.isometry.translation =
                  IF unit.args.trans.some THEN unit.args.trans.v
                  ELSE b.isometry.translation
            /\ a.isometry.rotation =
                  IF unit.args.rot.some THEN unit.args.rot.v
                  ELSE b.isometry.rotation
            /\ a.perspective.fovy =
                  IF unit.args.fov.some THEN unit.args.fov.v
                  ELSE b.perspective.fovy
            /\ a.perspective.aspect = b.perspective.aspect
            /\ a.width = b.width /\ a.height = b.height
            /\ unit.after.sphere = unit.before.sphere
            /\ unit.after.bgtex = unit.before.bgtex

\* the pixel a sequential loop stores at c: render_px evaluated at c itself,
\* each channel converted to a byte
SequentialPixel(s, c) ==
    LET col == render_px(s, c[1], c[2])
    IN  <<ToU8(col.red), ToU8(col.green), ToU8(col.blue), ToU8(col.alpha)>>

\* the image a sequential loop over every (x, y) of the scene produces
SequentialImage(s) ==
    [w |-> s.camera.width, h |-> s.camera.height,
     buf |-> [c \in Coords(s) |-> SequentialPixel(s, c)]]

\* C27: every message in flight carries, with its coordinate, the colour of
\* render_px at that same coordinate; every pixel written so far holds the
\* conversion of render_px at its own coordinate; and the image render
\* returns is the sequential reference image of the scene.
C27_ParallelEqualsSequential ==
    /\ \A k \in DOMAIN queue :
          queue[k][3] = render_px(scene, queue[k][1], queue[k][2])
    /\ pc \in {"recv", "callback", "ok", "done"} =>
          \A c \in DOMAIN writes :
              writes[c] > 0 => img.buf[c] = SequentialPixel(scene, c)
    /\ Returned => img = SequentialImage(scene)

\* render has returned, on two pool threads, an image of two tiles that is
\* wider than high and holds pixels of two colours
C27_Witness ==
    /\ pc = "ok"
    /\ num_threads = 2
    /\ Len(tasks) = 2
    /\ tasks[2].sent > 0
    /\ img.w > img.h
    /\ \E c, d \in DOMAIN img.buf : img.buf[c] # img.buf[d]

\* p < q for two ratios of positive denominators
RatioLess(p, q) == p[1] * q[2] < q[1] * p[2]

\* C28: during a render the fractions handed to the reporter lie in 0..1,
\* the first, handed over with the first message, is 0, and each is greater
\* than the one before; when render returns it has processed width * height
\* messages.
C28_FractionsIncrease ==
    /\ pc \in {"recv", "callback", "ok"} =>
          /\ \A k \in DOMAIN calls :
                /\ calls[k].p[2] > 0
                /\ ~RatioLess(calls[k].p, <<0, 1>>)
                /\ ~RatioLess(<<1, 1>>, calls[k].p)
                /\ k = 1 => RatioEq(calls[k].p, <<0, 1>>)
                /\ k > 1 => RatioLess(calls[k - 1].p, calls[k].p)
          /\ (HasReporter /\ (i > 0 \/ pc = "callback")) => calls # <<>>
    /\ Returned => i = scene.camera.width * scene.camera.height

\* the render of the image of 42 pixels has returned after two reports, the
\* second at 40 / 42
C28_Witness ==
    /\ pc = "ok"
    /\ HasReporter
    /\ Len(calls) = 2
    /\ calls[2].p[1] = 40
    /\ i = 2 * StripLen

\* C29: when GRScene::render has returned, every pixel of its image holds the
\* conversion of render_px at that pixel, with a reporter and without one;
\* and with a reporter the last call is (1.0, "Done.").
C29_RenderWritesEveryPixel ==
    (unit.fn = GRRenderName /\ unit.st = "ok") =>
        /\ unit.img.w = unit.wh[1] /\ unit.img.h = unit.wh[2]
        /\ \A c \in DOMAIN unit.img.buf :
              unit.img.buf[c] = color_to_rgba(GRPixel(unit.wh, c[1], c[2]))
        /\ unit.reporter =>
              /\ unit.calls # <<>>
              /\ unit.calls[Len(unit.calls)] = [p |-> Ratio(1, 1), msg |-> "Done."]

\* C30: in render_threading no coordinate is received twice and none lies
\* outside the image, so that put_pixel does not panic; and when it has
\* returned, every pixel of the image was received.
C30_RegionsPartitionImage ==
    unit.fn = RTName =>
        /\ ~unit.overdrawn
        /\ unit.st # "panicked"
        /\ \A c \in unit.seen : c[1] < unit.wh[1] /\ c[2] < unit.wh[2]
        /\ unit.st = "ok" =>
              unit.seen = (0..(unit.wh[1] - 1)) \X (0..(unit.wh[2] - 1))
====
